---- MODULE Spec2Model ----
(***************************************************************************)
(* Model of streamlit_lab_monitor.py: the MQTT receiver callback           *)
(* (on_connect / on_message, run by the client's network thread), the      *)
(* cached resources (load_models, start_mqtt) and the script body that     *)
(* Streamlit re-executes on every st.rerun(): attach the queue, drain it,  *)
(* classify, publish, append to the bounded history, render, sleep, rerun. *)
(*                                                                         *)
(* Numbers.  Sensor readings are Python floats; the model keeps the        *)
(* integral ones as integers.  A probability p in [0,1] is the integer     *)
(* p * ProbScale; a confidence (a percentage) is kept in hundredths of a   *)
(* percent, so 92.0 is 9200 and "one decimal place" is "a multiple of 10". *)
(***************************************************************************)
EXTENDS Integers, Sequences, FiniteSets, TLC

VARIABLES
    pc,            \* position of the script run (main thread)
    models,        \* load_models() cache: slot -> "uncached" | "None" | "loaded"
    mqtt_client,   \* start_mqtt() cache: "uncached" | "None" | "client"
    userdata,      \* the client's user data: "None" | "mqtt_queue" | "mqtt_queue2"
    receiver,      \* network thread: "off" | "started" | "subscribed" | "dead"
    mqtt_queue,    \* st.session_state.mqtt_queue: sequence of (topic, payload) pairs
    sensor_data,   \* st.session_state.sensor_data   (Current State, observation)
    predictions,   \* st.session_state.predictions   (Current State, results)
    history,       \* st.session_state.history       (History Store)
    published,     \* messages handed to mqtt_client.publish in this script run
    mqtt_errors,   \* number of "MQTT Error" lines on_message has printed
    nmsg,          \* number of transport messages delivered to on_message so far
    passLog,       \* pairs popped by the drain loop in this script run (history variable)
    call,          \* SpecAdapter only: the slot and classifier outcome of the call under test
    effects,       \* what this script run did to the outside, in order (history variable)
    session2       \* a second browser session: its script position and its own queue

vars == <<pc, models, mqtt_client, userdata, receiver, mqtt_queue, sensor_data,
          predictions, history, published, mqtt_errors, nmsg, passLog, call, effects,
          session2>>

(***************************************************************************)
(* Bounds of the model.                                                    *)
(***************************************************************************)
\* transport messages delivered to on_message in one behaviour
MaxMsgs == 2

(***************************************************************************)
(* Configuration.                                                          *)
(***************************************************************************)
TOPIC_DATA == "net4think/lab_monitor/data"
TOPIC_PRED_MQ135 == "net4think/lab_monitor/pred_mq135"
TOPIC_PRED_MQ2 == "net4think/lab_monitor/pred_mq2"
TOPIC_PRED_MQ7 == "net4think/lab_monitor/pred_mq7"
\* a topic the script does not handle
TOPIC_OTHER == "net4think/lab_monitor/other"

\* the cap of the History Store
HISTORY_MAX == 1000

Slots == {"mq135", "mq2", "mq7"}

\* probabilities are integers in 0 .. ProbScale (ten-thousandths)
ProbScale == 100 * 100

(***************************************************************************)
(* Payloads on the wire and json.loads(msg.payload.decode()).              *)
(* A JSON value is [t, n, s]: a number n, a string s, or null.  A decoded  *)
(* payload is [kind, fields]: a dict with its fields, or a non-dict value. *)
(***************************************************************************)
JNum(n) == [t |-> "num", n |-> n, s |-> ""]
JStr(s) == [t |-> "str", n |-> 0, s |-> s]
JNull == [t |-> "null", n |-> 0, s |-> ""]

W_FULL == "{\"temperature\":25.0,\"humidity\":60.0,\"mq135_ppm\":120.0,\"mq2_ppm\":5.0,\"mq7_ppm\":3.0}"
W_NUMSTR == "{\"mq2_ppm\":\"7\"}"
W_BADNUM == "{\"temperature\":\"abc\"}"
W_LIST == "[1,2]"
W_GARBAGE == "temp=25"

WirePayloads == {W_FULL, W_NUMSTR, W_BADNUM, W_LIST, W_GARBAGE}

JDict(f) == [kind |-> "dict", fields |-> f]
NoFields == [k \in {} |-> JNull]
JList == [kind |-> "list", fields |-> NoFields]

\* json.loads on the payload texts above: [ok, value]; ok = FALSE is the raised
\* JSONDecodeError (or UnicodeDecodeError of decode()).
JsonLoads(text) ==
    CASE text = W_FULL ->
            [ok |-> TRUE,
             value |-> JDict([k \in {"temperature", "humidity", "mq135_ppm", "mq2_ppm", "mq7_ppm"} |->
                                CASE k = "temperature" -> JNum(25)
                                  [] k = "humidity" -> JNum(60)
                                  [] k = "mq135_ppm" -> JNum(120)
                                  [] k = "mq2_ppm" -> JNum(5)
                                  [] OTHER -> JNum(3)])]
      [] text = W_NUMSTR -> [ok |-> TRUE, value |-> JDict([k \in {"mq2_ppm"} |-> JStr("7")])]
      [] text = W_BADNUM -> [ok |-> TRUE, value |-> JDict([k \in {"temperature"} |-> JStr("abc")])]
      [] text = W_LIST -> [ok |-> TRUE, value |-> JList]
      [] OTHER -> [ok |-> FALSE, value |-> JList]

\* payload.get(key, 0): AttributeError (ok = FALSE) when the payload is no dict
DictGet(payload, key) ==
    IF payload.kind # "dict" THEN [ok |-> FALSE, value |-> JNull]
    ELSE IF key \in DOMAIN payload.fields THEN [ok |-> TRUE, value |-> payload.fields[key]]
    ELSE [ok |-> TRUE, value |-> JNum(0)]

\* float(v): a number converts, a string converts when it spells a number
\* (ValueError otherwise), None raises TypeError
ToFloat(v) ==
    CASE v.t = "num" -> [ok |-> TRUE, value |-> v.n]
      [] v.t = "str" /\ v.s = "7" -> [ok |-> TRUE, value |-> 7]
      [] OTHER -> [ok |-> FALSE, value |-> 0]

\* float(payload.get(key, 0))
Field(payload, key) ==
    LET g == DictGet(payload, key)
    IN  IF g.ok THEN ToFloat(g.value) ELSE [ok |-> FALSE, value |-> 0]

(***************************************************************************)
(* Classification Adapter.  A classifier artifact is opaque: one call      *)
(* either raises or returns a prediction and a per-category probability    *)
(* vector.  That outcome of a call is the "behaviour" argument below:      *)
(* [raises, pred, label, proba], where pred is the 0-based category index  *)
(* predict() returns for MQ-135 and label the category it returns for      *)
(* MQ-2 / MQ-7.                                                            *)
(***************************************************************************)
\* classes_ of the MQ-135 artifact's label encoder
LabelClasses == <<"Baik", "Buruk", "Sedang">>

\* x / d rounded to the nearest integer, ties to even (x >= 0, d > 0)
RoundHalfEven(x, d) ==
    LET q == x \div d
        r == x % d
    IN  IF 2 * r < d THEN q
        ELSE IF 2 * r > d THEN q + 1
        ELSE IF q % 2 = 0 THEN q ELSE q + 1

\* round(p * 100, 1), in hundredths of a percent
ConfidenceNoRound(p) == (p * 100 * 100) \div ProbScale
Confidence(p) == 10 * RoundHalfEven((p * 100 * 100) \div ProbScale, 10)

RECURSIVE SeqMax(_)
SeqMax(s) == IF Len(s) = 1 THEN s[1]
             ELSE LET m == SeqMax(Tail(s)) IN IF s[1] >= m THEN s[1] ELSE m


\* what a call hands back to the script: a (label, confidence) pair, or a fault
\* that propagates out of the call
Return(label, confidence) == [fault |-> FALSE, label |-> label, confidence |-> confidence]
Propagate == [fault |-> TRUE, label |-> "", confidence |-> 0]

\* the calls in predict_mq135's try block raise: the model raises,
\* inverse_transform meets an unseen index, or proba has no such index
Raises135(beh) ==
    \/ beh.raises
    \/ beh.pred + 1 \notin DOMAIN LabelClasses
    \/ beh.pred + 1 \notin DOMAIN beh.proba

\* the calls in predict_mq2's / predict_mq7's try block raise: the model raises,
\* or max() meets an empty vector
RaisesRF(beh) == beh.raises \/ beh.proba = <<>>

predict_mq135(m, beh) ==
    IF m = "None" THEN Return("N/A", 0)
    ELSE IF Raises135(beh) THEN Return("Error", 0)
    ELSE Return(LabelClasses[beh.pred + 1], Confidence(beh.proba[beh.pred + 1]))

\* variant of predict_mq2 without its except clause
predict_mq2_NoCatch(m, beh) ==
    IF m = "None" THEN Return("N/A", 0)
    ELSE IF RaisesRF(beh) THEN Propagate
    ELSE Return(beh.label, Confidence(SeqMax(beh.proba)))

predict_mq2(m, beh) ==
    IF m = "None" THEN Return("N/A", 0)
    ELSE IF RaisesRF(beh) THEN Return("Error", 0)
    ELSE Return(beh.label, Confidence(SeqMax(beh.proba)))

predict_mq7(m, beh) ==
    IF m = "None" THEN Return("N/A", 0)
    ELSE IF RaisesRF(beh) THEN Return("Error", 0)
    ELSE Return(beh.label, Confidence(SeqMax(beh.proba)))

Behaviour(raises, pred, label, proba) ==
    [raises |-> raises, pred |-> pred, label |-> label, proba |-> proba]

\* outcomes of one classifier call in the script run
RaiseBeh == Behaviour(TRUE, 0, "", <<>>)
Ok135 == Behaviour(FALSE, 0, "", <<9200, 500, 300>>)
OkRF == Behaviour(FALSE, 0, "smoke", <<1234, 8766>>)
Behaviours135 == {RaiseBeh, Ok135}
BehavioursRF == {RaiseBeh, OkRF}

(***************************************************************************)
(* Session state.                                                          *)
(***************************************************************************)
SensorData(temp, hum, mq135, mq2, mq7, timestamp) ==
    [temp |-> temp, hum |-> hum, mq135 |-> mq135, mq2 |-> mq2, mq7 |-> mq7,
     timestamp |-> timestamp]

Prediction(r) == [label |-> r.label, confidence |-> r.confidence]

InitSensorData == SensorData(0, 0, 0, 0, 0, "-")
InitPredictions == [s \in Slots |-> [label |-> "Menunggu...", confidence |-> 0]]

\* wall-clock readings, formatted HH:MM:SS
Timestamps == {"10:00:00", "10:00:02"}

\* variant of new_record with the MQ-2 and MQ-7 readings in each other's column
NewRecord_SwappedGas(sd, r135, r2, r7, src) ==
    [time |-> sd.timestamp, Temp |-> sd.temp, Hum |-> sd.hum,
     MQ135 |-> sd.mq135, MQ2 |-> sd.mq7, MQ7 |-> sd.mq2,
     Status_135 |-> r135.label, Status_MQ2 |-> r2.label, Status_MQ7 |-> r7.label,
     src |-> src]

\* new_record; src is the number of the transport message it was made from
\* (instrumentation, not a field of the program's record)
NewRecord(sd, r135, r2, r7, src) ==
    [time |-> sd.timestamp, Temp |-> sd.temp, Hum |-> sd.hum,
     MQ135 |-> sd.mq135, MQ2 |-> sd.mq2, MQ7 |-> sd.mq7,
     Status_135 |-> r135.label, Status_MQ2 |-> r2.label, Status_MQ7 |-> r7.label,
     src |-> src]

\* variant of HistoryAppend that keeps the newest record first: insert(0, ...)
\* and pop() of the last record over the cap
HistoryAppend_NewestFirst(h, rec) ==
    LET a == <<rec>> \o h
    IN  IF Len(a) > HISTORY_MAX THEN SubSeq(a, 1, Len(a) - 1) ELSE a

\* variant of HistoryAppend that never pops
HistoryAppend_NoPop(h, rec) == Append(h, rec)

\* variant of HistoryAppend that pops the newest record, pop() for pop(0)
HistoryAppend_PopLast(h, rec) ==
    LET a == Append(h, rec)
    IN  IF Len(a) > HISTORY_MAX THEN SubSeq(a, 1, Len(a) - 1) ELSE a

\* history.append(new_record); if len(history) > 1000: history.pop(0)
HistoryAppend(h, rec) ==
    LET a == Append(h, rec)
    IN  IF Len(a) > HISTORY_MAX THEN Tail(a) ELSE a

\* variant of Publish with a copy-and-paste slip: the MQ-7 topic gets the
\* MQ-2 result
Publish_Mq2Twice(client, log, r135, r2, r7) ==
    IF client = "None" THEN log
    ELSE log \o << [topic |-> TOPIC_PRED_MQ135, payload |-> Prediction(r135)],
                   [topic |-> TOPIC_PRED_MQ2, payload |-> Prediction(r2)],
                   [topic |-> TOPIC_PRED_MQ7, payload |-> Prediction(r2)] >>

\* the three mqtt_client.publish calls, skipped when there is no client
Publish(client, log, r135, r2, r7) ==
    IF client = "None" THEN log
    ELSE log \o << [topic |-> TOPIC_PRED_MQ135, payload |-> Prediction(r135)],
                   [topic |-> TOPIC_PRED_MQ2, payload |-> Prediction(r2)],
                   [topic |-> TOPIC_PRED_MQ7, payload |-> Prediction(r7)] >>

\* variant of QueuePut that puts at the front, a LIFO queue
QueuePut_Front(q, item) == <<item>> \o q

\* queue.Queue: put at the back, get from the front
QueuePut(q, item) == Append(q, item)
QueueGet(q) == [item |-> Head(q), rest |-> Tail(q)]

\* variant of the topic test that takes every topic for the data topic
IsDataTopic_Any(topic) == TRUE

\* if topic == TOPIC_DATA
IsDataTopic(topic) == topic = TOPIC_DATA

\* the outward effects of lines 211-234 for the pair numbered id, in the order
\* of the code: the publish calls made (pubs), then history.append
Effects(log, pubs, id) ==
    log \o [i \in 1 .. Len(pubs) |-> [op |-> "publish", topic |-> pubs[i].topic, id |-> id]]
        \o << [op |-> "append", topic |-> "", id |-> id] >>

\* a browser session that has not been opened
ClosedSession == [pc |-> "closed", mqtt_queue |-> <<>>]

NoCall == [slot |-> "", beh |-> RaiseBeh]

Init ==
    /\ pc = "load_models"
    /\ models = [s \in Slots |-> "uncached"]
    /\ mqtt_client = "uncached"
    /\ userdata = "None"
    /\ receiver = "off"
    /\ mqtt_queue = <<>>
    /\ sensor_data = InitSensorData
    /\ predictions = InitPredictions
    /\ history = <<>>
    /\ published = <<>>
    /\ mqtt_errors = 0
    /\ nmsg = 0
    /\ passLog = <<>>
    /\ call = NoCall
    /\ effects = <<>>
    /\ session2 = ClosedSession

(***************************************************************************)
(* The network thread of the MQTT client.                                  *)
(***************************************************************************)
OnConnect(rc) ==
    /\ receiver = "started"
    /\ receiver' = IF rc = 0 THEN "subscribed" ELSE receiver
    /\ UNCHANGED <<pc, models, mqtt_client, userdata, mqtt_queue, sensor_data,
                   predictions, history, published, mqtt_errors, nmsg, passLog, call, effects, session2>>

\* variant of on_message without its except clause: the fault leaves the
\* callback and ends the network thread
OnMessage_NoCatch(topic, text) ==
    /\ receiver = "subscribed"
    /\ nmsg < MaxMsgs
    /\ nmsg' = nmsg + 1
    /\ LET d == JsonLoads(text)
       IN  IF ~d.ok
           THEN receiver' = "dead" /\ UNCHANGED <<mqtt_queue, mqtt_errors, session2>>
           ELSE /\ mqtt_queue' = IF userdata = "mqtt_queue"
                                 THEN QueuePut(mqtt_queue,
                                               [topic |-> topic, payload |-> d.value,
                                                id |-> nmsg + 1])
                                 ELSE mqtt_queue
                /\ session2' = IF userdata = "mqtt_queue2"
                               THEN [session2 EXCEPT !.mqtt_queue =
                                        QueuePut(@, [topic |-> topic, payload |-> d.value,
                                                     id |-> nmsg + 1])]
                               ELSE session2
                /\ UNCHANGED <<receiver, mqtt_errors>>
    /\ UNCHANGED <<pc, models, mqtt_client, userdata, sensor_data, predictions,
                   history, published, passLog, call, effects>>

\* on_message for a transport message with this topic and payload text; the
\* pair it queues carries the message's number (instrumentation)
OnMessage(topic, text) ==
    /\ receiver = "subscribed"
    /\ nmsg < MaxMsgs
    /\ nmsg' = nmsg + 1
    /\ LET d == JsonLoads(text)
       IN  IF ~d.ok
           THEN mqtt_errors' = mqtt_errors + 1 /\ UNCHANGED <<receiver, mqtt_queue, session2>>
           ELSE /\ mqtt_queue' = IF userdata = "mqtt_queue"
                                 THEN QueuePut(mqtt_queue,
                                               [topic |-> topic, payload |-> d.value,
                                                id |-> nmsg + 1])
                                 ELSE mqtt_queue
                /\ session2' = IF userdata = "mqtt_queue2"
                               THEN [session2 EXCEPT !.mqtt_queue =
                                        QueuePut(@, [topic |-> topic, payload |-> d.value,
                                                     id |-> nmsg + 1])]
                               ELSE session2
                /\ UNCHANGED <<receiver, mqtt_errors>>
    /\ UNCHANGED <<pc, models, mqtt_client, userdata, sensor_data, predictions,
                   history, published, passLog, call, effects>>

(***************************************************************************)
(* The script run.  pc = "crashed": an exception left the script, the run  *)
(* ended without reaching st.rerun().                                      *)
(***************************************************************************)
\* variant of load_models without @st.cache_resource: every run loads again
LoadModels_NoCache ==
    /\ pc = "load_models"
    /\ pc' = "start_mqtt"
    /\ models' \in [Slots -> {"None", "loaded"}]
    /\ UNCHANGED <<mqtt_client, userdata, receiver, mqtt_queue, sensor_data,
                   predictions, history, published, mqtt_errors, nmsg, passLog, call, effects, session2>>

\* models = load_models(): each joblib.load succeeds or fails on the first run,
\* later runs get the cached dict
LoadModels ==
    /\ pc = "load_models"
    /\ pc' = "start_mqtt"
    /\ IF \E s \in Slots : models[s] = "uncached"
       THEN models' \in [Slots -> {"None", "loaded"}]
       ELSE models' = models
    /\ UNCHANGED <<mqtt_client, userdata, receiver, mqtt_queue, sensor_data,
                   predictions, history, published, mqtt_errors, nmsg, passLog, call, effects, session2>>

\* mqtt_client = start_mqtt(): on the first run connect() succeeds and
\* loop_start() starts the network thread, or connect() raises and None is
\* returned; later runs get the cached value
StartMqtt ==
    /\ pc = "start_mqtt"
    /\ pc' = "attach"
    /\ IF mqtt_client = "uncached"
       THEN \/ mqtt_client' = "client" /\ receiver' = "started"
            \/ mqtt_client' = "None" /\ receiver' = receiver
       ELSE UNCHANGED <<mqtt_client, receiver>>
    /\ UNCHANGED <<models, userdata, mqtt_queue, sensor_data, predictions, history,
                   published, mqtt_errors, nmsg, passLog, call, effects, session2>>

\* if mqtt_client: mqtt_client.user_data_set(st.session_state.mqtt_queue)
Attach ==
    /\ pc = "attach"
    /\ pc' = "drain"
    /\ userdata' = IF mqtt_client = "client" THEN "mqtt_queue" ELSE userdata
    /\ UNCHANGED <<models, mqtt_client, receiver, mqtt_queue, sensor_data, predictions,
                   history, published, mqtt_errors, nmsg, passLog, call, effects, session2>>

\* while not st.session_state.mqtt_queue.empty()
DrainCheck ==
    /\ pc = "drain"
    /\ pc' = IF mqtt_queue = <<>> THEN "render" ELSE "get"
    /\ UNCHANGED <<models, mqtt_client, userdata, receiver, mqtt_queue, sensor_data,
                   predictions, history, published, mqtt_errors, nmsg, passLog, call, effects, session2>>

\* the five float(payload.get(...)) conversions; ok = FALSE when one raises
Parse(payload) ==
    LET t == Field(payload, "temperature")
        h == Field(payload, "humidity")
        a == Field(payload, "mq135_ppm")
        b == Field(payload, "mq2_ppm")
        c == Field(payload, "mq7_ppm")
    IN  [ok |-> t.ok /\ h.ok /\ a.ok /\ b.ok /\ c.ok,
         temp |-> t.value, hum |-> h.value, mq135 |-> a.value, mq2 |-> b.value,
         mq7 |-> c.value]

\* one iteration of the drain loop, queue.get() and the loop body, with the
\* clock reading ts and the classifier outcomes b135, b2, b7
DrainStep(ts, b135, b2, b7) ==
    /\ pc = "get"
    /\ mqtt_queue # <<>>
    /\ LET got == QueueGet(mqtt_queue)
           pair == got.item
           p == Parse(pair.payload)
           sd == SensorData(p.temp, p.hum, p.mq135, p.mq2, p.mq7, ts)
           r135 == predict_mq135(models["mq135"], b135)
           r2 == predict_mq2(models["mq2"], b2)
           r7 == predict_mq7(models["mq7"], b7)
       IN  /\ mqtt_queue' = got.rest
           /\ passLog' = Append(passLog, pair)
           /\ IF ~IsDataTopic(pair.topic)
              THEN /\ pc' = "drain"
                   /\ UNCHANGED <<sensor_data, predictions, history, published, effects>>
              ELSE IF ~p.ok
              THEN /\ pc' = "crashed"
                   /\ UNCHANGED <<sensor_data, predictions, history, published, effects>>
              ELSE IF r135.fault \/ r2.fault \/ r7.fault
              THEN /\ pc' = "crashed"
                   /\ sensor_data' = sd
                   /\ UNCHANGED <<predictions, history, published, effects>>
              ELSE /\ pc' = "drain"
                   /\ sensor_data' = sd
                   /\ predictions' = [mq135 |-> Prediction(r135),
                                      mq2 |-> Prediction(r2),
                                      mq7 |-> Prediction(r7)]
                   /\ published' = Publish(mqtt_client, published, r135, r2, r7)
                   /\ effects' = Effects(effects, Publish(mqtt_client, <<>>, r135, r2, r7),
                                         pair.id)
                   /\ history' = HistoryAppend(history,
                                               NewRecord(sd, r135, r2, r7, pair.id))
    /\ UNCHANGED <<models, mqtt_client, userdata, receiver, mqtt_errors, nmsg, call,
                   session2>>

DrainGet ==
    \E ts \in Timestamps, b135 \in Behaviours135, b2 \in BehavioursRF, b7 \in BehavioursRF :
        DrainStep(ts, b135, b2, b7)

\* the UI is rebuilt from sensor_data, predictions and history
Render ==
    /\ pc = "render"
    /\ pc' = "sleep"
    /\ UNCHANGED <<models, mqtt_client, userdata, receiver, mqtt_queue, sensor_data,
                   predictions, history, published, mqtt_errors, nmsg, passLog, call, effects, session2>>

\* time.sleep(2); st.rerun(): the script starts again from its first line
Rerun ==
    /\ pc = "sleep"
    /\ pc' = "load_models"
    /\ published' = <<>>
    /\ passLog' = <<>>
    /\ effects' = <<>>
    /\ UNCHANGED <<models, mqtt_client, userdata, receiver, mqtt_queue, sensor_data,
                   predictions, history, mqtt_errors, nmsg, call, session2>>

\* the transport messages the broker delivers: (topic, payload text)
Messages ==
    {<<TOPIC_DATA, text>> : text \in WirePayloads} \cup {<<TOPIC_OTHER, W_FULL>>}

Next ==
    \/ \E rc \in {0, 5} : OnConnect(rc)
    \/ \E msg \in Messages : OnMessage(msg[1], msg[2])
    \/ LoadModels
    \/ StartMqtt
    \/ Attach
    \/ DrainCheck
    \/ DrainGet
    \/ Render
    \/ Rerun

Spec == Init /\ [][Next]_vars

\* The script thread is scheduled: a step of the script run that stays possible
\* is taken.  Nothing is asked of the broker, which may stay silent.
ScriptRuns ==
    /\ WF_vars(LoadModels)
    /\ WF_vars(StartMqtt)
    /\ WF_vars(Attach)
    /\ WF_vars(DrainCheck)
    /\ WF_vars(DrainGet)
    /\ WF_vars(Render)
    /\ WF_vars(Rerun)

SpecLive == Spec /\ ScriptRuns

(***************************************************************************)
(* The same program started from a later point of a run: a script run is   *)
(* about to begin, the three models are loaded and cached, the client has  *)
(* just reconnected to the broker (its on_connect is still to run) and the *)
(* History Store already holds HISTORY_MAX - 1 or HISTORY_MAX records,     *)
(* made from earlier W_FULL messages (numbered .. -1, 0) that the          *)
(* classifiers answered without raising.  One message of the MaxMsgs       *)
(* budget counts as spent by that earlier part of the run.                 *)
(***************************************************************************)
EarlierRecord(mdl, src) ==
    LET p == Parse(JsonLoads(W_FULL).value)
    IN  NewRecord(SensorData(p.temp, p.hum, p.mq135, p.mq2, p.mq7, "10:00:00"),
                  predict_mq135(mdl["mq135"], Ok135),
                  predict_mq2(mdl["mq2"], OkRF),
                  predict_mq7(mdl["mq7"], OkRF),
                  src)

InitNearCap ==
    /\ pc = "load_models"
    /\ models = [s \in Slots |-> "loaded"]
    /\ mqtt_client = "client"
    /\ userdata = "mqtt_queue"
    /\ receiver = "started"
    /\ mqtt_queue = <<>>
    /\ LET p == Parse(JsonLoads(W_FULL).value)
       IN  sensor_data = SensorData(p.temp, p.hum, p.mq135, p.mq2, p.mq7, "10:00:00")
    /\ predictions = [mq135 |-> Prediction(predict_mq135(models["mq135"], Ok135)),
                      mq2 |-> Prediction(predict_mq2(models["mq2"], OkRF)),
                      mq7 |-> Prediction(predict_mq7(models["mq7"], OkRF))]
    /\ \E n \in {HISTORY_MAX - 1, HISTORY_MAX} :
          history = [i \in 1 .. n |-> EarlierRecord(models, i - HISTORY_MAX)]
    /\ published = <<>>
    /\ mqtt_errors = 0
    /\ nmsg = 1
    /\ passLog = <<>>
    /\ call = NoCall
    /\ effects = <<>>
    /\ session2 = ClosedSession

SpecNearCap == InitNearCap /\ [][Next]_vars

(***************************************************************************)
(* The Classification Adapter on its own: one call of one predict function *)
(* on one classifier outcome, drawn from a wider set than the script run   *)
(* uses (index out of range, empty vector, values that need rounding).     *)
(***************************************************************************)
ProbValues == {0, 5, 15, 4994, 4995, 9200, 9996, ProbScale}

ProbaVectors ==
    {<<>>} \cup {<<p, q>> : p \in ProbValues, q \in ProbValues}

AdapterBehaviours ==
    {Behaviour(r, i, l, v) :
        r \in BOOLEAN, i \in 0 .. 3, l \in {"smoke", "normal"}, v \in ProbaVectors}

InitAdapter ==
    /\ pc = "adapter"
    /\ models \in [Slots -> {"None", "loaded"}]
    /\ call \in [slot : Slots, beh : AdapterBehaviours]
    /\ mqtt_client = "uncached"
    /\ userdata = "None"
    /\ receiver = "off"
    /\ mqtt_queue = <<>>
    /\ sensor_data = InitSensorData
    /\ predictions = InitPredictions
    /\ history = <<>>
    /\ published = <<>>
    /\ mqtt_errors = 0
    /\ nmsg = 0
    /\ passLog = <<>>
    /\ effects = <<>>
    /\ session2 = ClosedSession

\* the caller's "label, conf = predict(...)" for the call under test
AdapterReturn(r) ==
    /\ pc' = IF r.fault THEN "crashed" ELSE "adapter_done"
    /\ predictions' = IF r.fault THEN predictions
                      ELSE [predictions EXCEPT ![call.slot] = Prediction(r)]
    /\ UNCHANGED <<models, mqtt_client, userdata, receiver, mqtt_queue, sensor_data,
                   history, published, mqtt_errors, nmsg, passLog, call, effects, session2>>

CallMq135 ==
    /\ pc = "adapter"
    /\ call.slot = "mq135"
    /\ AdapterReturn(predict_mq135(models["mq135"], call.beh))

CallMq2 ==
    /\ pc = "adapter"
    /\ call.slot = "mq2"
    /\ AdapterReturn(predict_mq2(models["mq2"], call.beh))

CallMq7 ==
    /\ pc = "adapter"
    /\ call.slot = "mq7"
    /\ AdapterReturn(predict_mq7(models["mq7"], call.beh))

NextAdapter == CallMq135 \/ CallMq2 \/ CallMq7

SpecAdapter == InitAdapter /\ [][NextAdapter]_vars

(***************************************************************************)
(* Two browser sessions.  Every session runs the same script in a thread   *)
(* of its own, on its own st.session_state (so its own queue), while the   *)
(* st.cache_resource values, the models and the MQTT client, are shared by *)
(* all sessions of the server process.  Of the second session the model    *)
(* keeps its script position and its queue; its Current State and History  *)
(* Store are not kept.                                                     *)
(***************************************************************************)
InitSessions ==
    /\ pc = "load_models"
    /\ models = [s \in Slots |-> "uncached"]
    /\ mqtt_client = "uncached"
    /\ userdata = "None"
    /\ receiver = "off"
    /\ mqtt_queue = <<>>
    /\ sensor_data = InitSensorData
    /\ predictions = InitPredictions
    /\ history = <<>>
    /\ published = <<>>
    /\ mqtt_errors = 0
    /\ nmsg = 0
    /\ passLog = <<>>
    /\ call = NoCall
    /\ effects = <<>>
    /\ session2 = [pc |-> "load_models", mqtt_queue |-> <<>>]

\* what the second session's steps leave alone: the first session's state
Session2Frame ==
    UNCHANGED <<pc, mqtt_queue, sensor_data, predictions, history, published,
                mqtt_errors, nmsg, passLog, call, effects>>

\* models = load_models() in the second session's run: the same cache
Session2LoadModels ==
    /\ session2.pc = "load_models"
    /\ session2' = [session2 EXCEPT !.pc = "start_mqtt"]
    /\ IF \E s \in Slots : models[s] = "uncached"
       THEN models' \in [Slots -> {"None", "loaded"}]
       ELSE models' = models
    /\ UNCHANGED <<mqtt_client, userdata, receiver>>
    /\ Session2Frame

\* mqtt_client = start_mqtt() in the second session's run: the same cache
Session2StartMqtt ==
    /\ session2.pc = "start_mqtt"
    /\ session2' = [session2 EXCEPT !.pc = "attach"]
    /\ IF mqtt_client = "uncached"
       THEN \/ mqtt_client' = "client" /\ receiver' = "started"
            \/ mqtt_client' = "None" /\ receiver' = receiver
       ELSE UNCHANGED <<mqtt_client, receiver>>
    /\ UNCHANGED <<models, userdata>>
    /\ Session2Frame

\* mqtt_client.user_data_set(st.session_state.mqtt_queue) in the second
\* session's run: the shared client now holds the second session's queue
Session2Attach ==
    /\ session2.pc = "attach"
    /\ session2' = [session2 EXCEPT !.pc = "drain"]
    /\ userdata' = IF mqtt_client = "client" THEN "mqtt_queue2" ELSE userdata
    /\ UNCHANGED <<models, mqtt_client, receiver>>
    /\ Session2Frame

\* while not st.session_state.mqtt_queue.empty() in the second session's run;
\* after the loop the run renders and sleeps
Session2DrainCheck ==
    /\ session2.pc = "drain"
    /\ session2' = [session2 EXCEPT
                       !.pc = IF session2.mqtt_queue = <<>> THEN "sleep" ELSE "get"]
    /\ UNCHANGED <<models, mqtt_client, userdata, receiver>>
    /\ Session2Frame

\* variant of the second session's iteration for a queue that is one object
\* shared by all sessions (a cached resource) in place of session state: it
\* pops from the queue the first session drains
Session2DrainGet_SharedQueue ==
    /\ session2.pc = "get"
    /\ mqtt_queue # <<>>
    /\ mqtt_queue' = QueueGet(mqtt_queue).rest
    /\ session2' = [session2 EXCEPT !.pc = "drain"]
    /\ UNCHANGED <<pc, models, mqtt_client, userdata, receiver, sensor_data, predictions,
                   history, published, mqtt_errors, nmsg, passLog, call, effects>>

\* one iteration of the second session's drain loop
Session2DrainGet ==
    /\ session2.pc = "get"
    /\ session2.mqtt_queue # <<>>
    /\ LET got == QueueGet(session2.mqtt_queue)
           pair == got.item
       IN  session2' = [pc |-> IF IsDataTopic(pair.topic) /\ ~Parse(pair.payload).ok
                               THEN "crashed" ELSE "drain",
                        mqtt_queue |-> got.rest]
    /\ UNCHANGED <<models, mqtt_client, userdata, receiver>>
    /\ Session2Frame

\* time.sleep(2); st.rerun() in the second session's run
Session2Rerun ==
    /\ session2.pc = "sleep"
    /\ session2' = [session2 EXCEPT !.pc = "load_models"]
    /\ UNCHANGED <<models, mqtt_client, userdata, receiver>>
    /\ Session2Frame

NextSessions ==
    \/ Next
    \/ Session2LoadModels
    \/ Session2StartMqtt
    \/ Session2Attach
    \/ Session2DrainCheck
    \/ Session2DrainGet
    \/ Session2Rerun

SpecSessions == InitSessions /\ [][NextSessions]_vars

(***************************************************************************)
(* Properties.                                                             *)
(***************************************************************************)
Last(q) == q[Len(q)]

\* the step is one iteration of the drain loop
DrainIteration == pc = "get" /\ pc' # "get" /\ mqtt_queue # <<>>

\* the step is an iteration of the drain loop that handles a data-topic pair
DataIteration == DrainIteration /\ Head(mqtt_queue).topic = TOPIC_DATA

\* C1: whatever messages are received and however often the queue is drained,
\* the History Store never holds more than 1000 records.
C1_HistoryNeverExceedsCap == Len(history) <= HISTORY_MAX

\* a record was appended to a full store: the store is full, its oldest
\* record is gone and its newest was made from a message of this behaviour
C1_Witness ==
    /\ Len(history) = HISTORY_MAX
    /\ history[1].src = 2 - HISTORY_MAX
    /\ Last(history).src > 0

\* C2: when the store holds exactly 1000 records and one more data-topic
\* message is processed, the store still holds 1000 records, the oldest one is
\* gone, the other 999 keep their order and the new record is last.
C2_EvictsOldestAtCap ==
    [][ (DataIteration /\ pc' = "drain" /\ Len(history) = HISTORY_MAX)
        => /\ Len(history') = HISTORY_MAX
           /\ \A i \in 1 .. (HISTORY_MAX - 1) : history'[i] = history[i + 1]
           /\ Last(history').src = Head(mqtt_queue).id
           /\ Last(history').Temp = sensor_data'.temp
           /\ Last(history').time = sensor_data'.timestamp ]_vars

\* a full store took one more record in this script run
C2_Witness ==
    /\ Len(history) = HISTORY_MAX
    /\ history[1].src = 2 - HISTORY_MAX
    /\ passLog # <<>>
    /\ Last(history).src = Last(passLog).id
    /\ pc = "drain"

\* C3: a transport message whose payload does not decode is discarded by
\* on_message: nothing is queued, the fault is logged and stays inside the
\* callback (the network thread lives on, the script run is not disturbed) and
\* Current State and the History Store are unchanged.
C3_MalformedMessageDiscarded ==
    [][ \A msg \in Messages :
          (~JsonLoads(msg[2]).ok /\ OnMessage(msg[1], msg[2]))
          => /\ mqtt_errors' = mqtt_errors + 1
             /\ receiver' = "subscribed"
             /\ UNCHANGED <<pc, mqtt_queue, sensor_data, predictions, history,
                            published>> ]_vars

\* the first message was malformed and discarded, the second one was handled
\* and queued
C3_Witness ==
    /\ mqtt_errors = 1
    /\ nmsg = 2
    /\ receiver = "subscribed"
    /\ mqtt_queue # <<>>
    /\ Last(mqtt_queue).id = 2

\* the Current State field a payload field is stored in
StateField == [temperature |-> "temp", humidity |-> "hum", mq135_ppm |-> "mq135",
               mq2_ppm |-> "mq2", mq7_ppm |-> "mq7"]

\* C4: a data-topic message with a numeric field missing or not parseable as a
\* number is processed normally with that field taken as 0: Current State is
\* overwritten and one History Record is appended.
C4_MissingOrUnparseableIsZero ==
    [][ (DataIteration /\ Head(mqtt_queue).payload.kind = "dict")
        => LET fields == Head(mqtt_queue).payload.fields
           IN  /\ pc' = "drain"
               /\ Len(history') = Len(history) + 1
               /\ \A k \in DOMAIN StateField :
                     (k \notin DOMAIN fields \/ ~ToFloat(fields[k]).ok)
                     => sensor_data'[StateField[k]] = 0 ]_vars

\* C5: no fault stops the Refresh Loop: whatever pairs are on the queue and
\* whatever the classifiers do, the script run never ends in an exception.
C5_LoopNeverStops == pc # "crashed"

\* the History Record field that holds a slot's label
StatusField == [mq135 |-> "Status_135", mq2 |-> "Status_MQ2", mq7 |-> "Status_MQ7"]

ErrorResult == [label |-> "Error", confidence |-> 0]
NAResult == [label |-> "N/A", confidence |-> 0]

\* C6: if a classifier raises while a data-topic message is processed, that
\* slot's result is ("Error", 0) and nothing propagates: the other slots get
\* their own results for the same message, the three results are published,
\* the History Record is appended and the loop goes on.
C6_RaisingSlotYieldsError ==
    [][ \A ts \in Timestamps, b135 \in Behaviours135, b2 \in BehavioursRF,
           b7 \in BehavioursRF :
          LET raised == [mq135 |-> models["mq135"] = "loaded" /\ Raises135(b135),
                         mq2 |-> models["mq2"] = "loaded" /\ RaisesRF(b2),
                         mq7 |-> models["mq7"] = "loaded" /\ RaisesRF(b7)]
              answered == [s \in Slots |-> models[s] = "loaded" /\ ~raised[s]]
          IN  ( /\ DrainStep(ts, b135, b2, b7)
                /\ Head(mqtt_queue).topic = TOPIC_DATA
                /\ Parse(Head(mqtt_queue).payload).ok
                /\ \E s \in Slots : raised[s] )
              => /\ pc' = "drain"
                 /\ \A s \in Slots : raised[s] => predictions'[s] = ErrorResult
                 /\ answered["mq135"] =>
                       predictions'["mq135"].label = LabelClasses[b135.pred + 1]
                 /\ answered["mq2"] => predictions'["mq2"].label = b2.label
                 /\ answered["mq7"] => predictions'["mq7"].label = b7.label
                 /\ published' = published \o
                       << [topic |-> TOPIC_PRED_MQ135, payload |-> predictions'["mq135"]],
                          [topic |-> TOPIC_PRED_MQ2, payload |-> predictions'["mq2"]],
                          [topic |-> TOPIC_PRED_MQ7, payload |-> predictions'["mq7"]] >>
                 /\ Len(history') = Len(history) + 1
                 /\ Last(history').src = Head(mqtt_queue).id
                 /\ \A s \in Slots :
                       Last(history')[StatusField[s]] = predictions'[s].label ]_vars

\* the MQ-2 classifier raised, MQ-135 and MQ-7 answered, and the cycle went on
\* to render
C6_Witness ==
    /\ pc = "sleep"
    /\ predictions["mq2"] = ErrorResult
    /\ predictions["mq135"].label = "Baik"
    /\ predictions["mq7"] = [label |-> "smoke", confidence |-> 8770]
    /\ history # <<>>
    /\ Last(history).Status_MQ2 = "Error"
    /\ Last(history).Status_MQ7 = "smoke"
    /\ Len(published) = 3
    /\ published[2] = [topic |-> TOPIC_PRED_MQ2, payload |-> ErrorResult]

\* C7: a model slot that failed to load stays unavailable for the whole run,
\* and every data-topic message processed while it is unavailable gets
\* ("N/A", 0) for that slot, never "Error".
C7_UnavailableSlotAlwaysNA ==
    [][ \A s \in Slots :
          models[s] = "None"
          => /\ models'[s] = "None"
             /\ predictions'[s].label # "Error"
             /\ (DataIteration /\ pc' = "drain")
                => /\ predictions'[s] = NAResult
                   /\ Last(history')[StatusField[s]] = "N/A" ]_vars

\* the MQ-2 slot failed to load; two different messages, processed in two
\* script runs, both got "N/A"
C7_Witness ==
    /\ models["mq2"] = "None"
    /\ Len(history) = 2
    /\ Len(passLog) = 1
    /\ history[1].Status_MQ2 = "N/A"
    /\ history[2].Status_MQ2 = "N/A"
    /\ history[1].Temp # history[2].Temp
    /\ predictions["mq2"] = NAResult

\* C8: an iteration of the drain loop that pops a pair of another topic removes
\* the pair and changes nothing else (Current State, History Store, publishes),
\* and the loop goes on: a pass that meets only such pairs does not end in a
\* fault, so it reaches the render.
C8_OtherTopicIgnored ==
    /\ [][ (DrainIteration /\ Head(mqtt_queue).topic # TOPIC_DATA)
           => /\ mqtt_queue' = Tail(mqtt_queue)
              /\ pc' = "drain"
              /\ UNCHANGED <<sensor_data, predictions, history, published>> ]_vars
    /\ []( (\A i \in 1 .. Len(passLog) : passLog[i].topic # TOPIC_DATA)
           => pc # "crashed" )

\* a pass popped pairs of another topic only and went on to render: nothing
\* of the session state has changed
C8_Witness ==
    /\ pc = "sleep"
    /\ passLog # <<>>
    /\ \A i \in 1 .. Len(passLog) : passLog[i].topic = TOPIC_OTHER
    /\ mqtt_queue = <<>>
    /\ sensor_data = InitSensorData
    /\ predictions = InitPredictions
    /\ history = <<>>
    /\ published = <<>>

\* a popped pair that the loop body processed to its end
Processed(pair) == pair.topic = TOPIC_DATA /\ Parse(pair.payload).ok

\* C9: within one pass pairs are handled in the order they were pushed: the
\* pairs popped so far were popped in push order, their History Records are
\* the newest records of the store in that same order, and Current State holds
\* the values of the last of them.
C9_FifoWithinPass ==
    LET D == SelectSeq(passLog, Processed)
        k == Len(D)
        n == Len(history)
    IN  /\ \A i, j \in 1 .. Len(passLog) : i < j => passLog[i].id < passLog[j].id
        /\ k <= n
        /\ \A i \in 1 .. k :
              LET rec == history[n - k + i]
                  p == Parse(D[i].payload)
              IN  /\ rec.src = D[i].id
                  /\ <<rec.Temp, rec.Hum, rec.MQ135, rec.MQ2, rec.MQ7>>
                       = <<p.temp, p.hum, p.mq135, p.mq2, p.mq7>>
        /\ k > 0 =>
              LET p == Parse(D[k].payload)
              IN  <<sensor_data.temp, sensor_data.hum, sensor_data.mq135,
                    sensor_data.mq2, sensor_data.mq7>>
                    = <<p.temp, p.hum, p.mq135, p.mq2, p.mq7>>

\* two different data messages were handled in one pass
C9_Witness ==
    /\ pc = "render"
    /\ Len(passLog) = 2
    /\ Processed(passLog[1])
    /\ Processed(passLog[2])
    /\ Len(history) = 2
    /\ history[1].Temp # history[2].Temp
    /\ history[1].src = 1
    /\ sensor_data.temp = history[2].Temp

\* the confidence c (hundredths of a percent) is the probability p scaled to a
\* percentage and rounded to one decimal place
RoundedPercent(c, p) ==
    /\ c % 10 = 0
    /\ ProbScale * c - 100 * 100 * p <= 5 * ProbScale
    /\ 100 * 100 * p - ProbScale * c <= 5 * ProbScale

\* C10: every confidence the adapter returns lies in [0, 100] and has at most
\* one decimal place; a sentinel result ("N/A", "Error") has confidence 0; an
\* answered call has the predicted class's probability (MQ-135) or the largest
\* per-category probability (MQ-2, MQ-7) times 100 rounded to one decimal, so
\* that "Baik" at 0.92 gives ("Baik", 92.0).
C10_ConfidenceRange ==
    pc = "adapter_done" =>
        LET r == predictions[call.slot]
            b == call.beh
            v == b.proba
        IN  /\ r.confidence \in 0 .. (100 * 100)
            /\ r.confidence % 10 = 0
            /\ r.label \in {"N/A", "Error"} => r.confidence = 0
            /\ models[call.slot] = "None" => r = NAResult
            /\ (models[call.slot] = "loaded" /\ b.raises) => r = ErrorResult
            /\ ( /\ models[call.slot] = "loaded" /\ ~b.raises
                 /\ call.slot = "mq135"
                 /\ b.pred + 1 \in DOMAIN LabelClasses
                 /\ b.pred + 1 \in DOMAIN v )
               => /\ r.label = LabelClasses[b.pred + 1]
                  /\ RoundedPercent(r.confidence, v[b.pred + 1])
                  /\ (b.pred = 0 /\ v[1] = 9200)
                     => r = [label |-> "Baik", confidence |-> 9200]
            /\ ( /\ models[call.slot] = "loaded" /\ ~b.raises
                 /\ call.slot \in {"mq2", "mq7"}
                 /\ v # <<>> )
               => /\ r.label = b.label
                  /\ \E i \in DOMAIN v :
                        /\ \A j \in DOMAIN v : v[j] <= v[i]
                        /\ RoundedPercent(r.confidence, v[i])

\* the MQ-135 classifier predicted "Baik" at probability 0.92: 92.0
C10_Witness ==
    /\ pc = "adapter_done"
    /\ call.slot = "mq135"
    /\ call.beh.pred = 0
    /\ call.beh.proba = <<9200, 5>>
    /\ predictions["mq135"] = [label |-> "Baik", confidence |-> 9200]

\* the pair on_message makes of the transport message msg, delivered as the
\* next message
QueuedPair(msg) ==
    [topic |-> msg[1], payload |-> JsonLoads(msg[2]).value, id |-> nmsg + 1]

\* C11: every transport message delivered to on_message whose payload decodes
\* is pushed on the queue shared with the Refresh Loop as (topic, payload),
\* from the moment the network loop is started: also a message delivered
\* before the script has attached the queue with user_data_set.
C11_DecodedMessageAlwaysQueued ==
    [][ \A msg \in Messages :
            (JsonLoads(msg[2]).ok /\ OnMessage(msg[1], msg[2]))
            => mqtt_queue' = Append(mqtt_queue, QueuedPair(msg)) ]_vars

\* the output topic of a slot, and the slots in the order of the publish calls
PredTopic(slot) ==
    CASE slot = "mq135" -> TOPIC_PRED_MQ135
      [] slot = "mq2" -> TOPIC_PRED_MQ2
      [] OTHER -> TOPIC_PRED_MQ7

PublishOrder == <<"mq135", "mq2", "mq7">>

\* C12: an iteration of the drain loop that processes a data-topic pair
\* publishes exactly three messages, one to each of pred_mq135, pred_mq2 and
\* pred_mq7 in that order; each carries the {label, confidence} the iteration
\* stored in Current State for that sensor; the appended History Record has
\* the published labels; and the three publishes come before the append.  So
\* a script run has published three messages per pair it processed.
C12_PublishesMatchStateAndRecord ==
    /\ [][ (DataIteration /\ pc' = "drain")
           => LET k == Len(published)
                  e == Len(effects)
                  id == Head(mqtt_queue).id
              IN  /\ Len(published') = k + 3
                  /\ SubSeq(published', 1, k) = published
                  /\ \A i \in 1 .. 3 :
                        /\ published'[k + i].topic = PredTopic(PublishOrder[i])
                        /\ published'[k + i].payload = predictions'[PublishOrder[i]]
                        /\ published'[k + i].payload.label
                              = Last(history')[StatusField[PublishOrder[i]]]
                        /\ effects'[e + i]
                              = [op |-> "publish", topic |-> PredTopic(PublishOrder[i]),
                                 id |-> id]
                  /\ Len(effects') = e + 4
                  /\ effects'[e + 4] = [op |-> "append", topic |-> "", id |-> id]
                  /\ Last(history').src = id ]_vars
    /\ [](Len(published) = 3 * Len(SelectSeq(passLog, Processed)))

\* a pass processed two data-topic pairs: six publishes, two records, and the
\* MQ-2 classifier raised for the second pair
C12_Witness ==
    /\ pc = "drain"
    /\ Len(SelectSeq(passLog, Processed)) = 2
    /\ Len(published) = 6
    /\ Len(history) = 2
    /\ published[1].payload = [label |-> "Baik", confidence |-> 9200]
    /\ published[5] = [topic |-> TOPIC_PRED_MQ2, payload |-> ErrorResult]
    /\ history[2].Status_MQ2 = "Error"
    /\ Last(effects).op = "append"

\* Current State shows what the History Record rec holds
ShowsRecord(rec) ==
    /\ sensor_data = SensorData(rec.Temp, rec.Hum, rec.MQ135, rec.MQ2, rec.MQ7, rec.time)
    /\ \A s \in Slots : predictions[s].label = rec[StatusField[s]]

\* C13: whenever the UI is rendered after at least one data-topic message was
\* processed, Current State holds the observation, timestamp and three labels
\* of the last History Record, and that record is the one of the most recently
\* processed data-topic message: Current State and the History Store change
\* only in an iteration that processes a data-topic pair, which stores that
\* pair's parsed values and appends its record last.
C13_RenderShowsLastProcessed ==
    /\ []( (pc = "render" /\ history # <<>>)
           => /\ ShowsRecord(Last(history))
              /\ LET D == SelectSeq(passLog, Processed)
                 IN  D # <<>> => Last(history).src = Last(D).id )
    /\ [][ (sensor_data' # sensor_data \/ predictions' # predictions
                \/ history' # history)
           => /\ DataIteration
              /\ pc' = "drain"
              /\ LET p == Parse(Head(mqtt_queue).payload)
                 IN  /\ p.ok
                     /\ \E ts \in Timestamps :
                           sensor_data' = SensorData(p.temp, p.hum, p.mq135, p.mq2,
                                                     p.mq7, ts)
                     /\ Last(history').src = Head(mqtt_queue).id ]_vars

\* the UI is rendered after a second pass: the records of two messages with
\* different readings are in the store and Current State shows the second
C13_Witness ==
    /\ pc = "render"
    /\ Len(history) = 2
    /\ Len(passLog) = 1
    /\ history[1].MQ2 = 5
    /\ history[2].MQ2 = 7
    /\ sensor_data.mq2 = 7
    /\ sensor_data.temp = 0
    /\ predictions["mq135"].label = history[2].Status_135

\* C15: the pop of the drain loop never blocks.  A session's script is the
\* only consumer of that session's queue, so between the empty check that
\* reported "not empty" and the get() that follows the queue can only have
\* grown, whatever the receiver thread pushes meanwhile and whatever another
\* session's script does: at get() the queue holds a pair.
C15_GetNeverBlocks ==
    /\ pc = "get" => mqtt_queue # <<>>
    /\ session2.pc = "get" => session2.mqtt_queue # <<>>

\* both sessions stand between their empty check and their get(), each with a
\* pair in its own queue; the first session's pair was pushed before the
\* second session attached its queue
C15_Witness ==
    /\ pc = "get"
    /\ session2.pc = "get"
    /\ Len(mqtt_queue) = 1
    /\ Len(session2.mqtt_queue) = 1
    /\ Head(mqtt_queue).id = 1
    /\ Head(session2.mqtt_queue).id = 2
    /\ userdata = "mqtt_queue2"

\* the pair made of transport message i is in the queue / has been popped in
\* this script run / has its record in the History Store
InQueue(i) == \E k \in 1 .. Len(mqtt_queue) : mqtt_queue[k].id = i
Popped(i) == \E k \in 1 .. Len(passLog) : passLog[k].id = i
Recorded(i) == \E k \in 1 .. Len(history) : history[k].src = i
DataInQueue(i) ==
    \E k \in 1 .. Len(mqtt_queue) : mqtt_queue[k].id = i /\ mqtt_queue[k].topic = TOPIC_DATA

\* C14: no queued pair is lost or processed twice.  The queue changes only by
\* a put at its back or by the drain loop's pop of its front, so a pair pushed
\* after a pass's last empty check stays queued; no message has two records;
\* every pair in the queue is popped by this or a later pass; and every
\* data-topic pair in the queue gets its History Record.
C14_EveryPairPoppedOnce ==
    /\ [][ mqtt_queue' # mqtt_queue
           => \/ \E msg \in Messages : mqtt_queue' = Append(mqtt_queue, QueuedPair(msg))
              \/ DrainIteration /\ mqtt_queue' = Tail(mqtt_queue) ]_vars
    /\ [](\A i, j \in 1 .. Len(history) : i < j => history[i].src # history[j].src)
    /\ \A i \in 1 .. MaxMsgs : InQueue(i) ~> Popped(i)
    /\ \A i \in 1 .. MaxMsgs : DataInQueue(i) ~> Recorded(i)

PushedOnFirst(msg) ==
    /\ mqtt_queue' = Append(mqtt_queue, QueuedPair(msg))
    /\ session2' = session2

PushedOnSecond(msg) ==
    /\ session2' = [session2 EXCEPT !.mqtt_queue = Append(@, QueuedPair(msg))]
    /\ mqtt_queue' = mqtt_queue

\* C17: the client is created once and shared by the sessions (the cached
\* value never changes once set), every script run attaches its own session's
\* queue to it, and each transport message that decodes is pushed on exactly
\* one queue: the queue of the session whose script run called user_data_set
\* last, and no other.
C17_PushedOnLastAttachedQueue ==
    /\ [][ mqtt_client # "uncached" => mqtt_client' = mqtt_client ]_vars
    /\ [][ (Attach /\ mqtt_client = "client") => userdata' = "mqtt_queue" ]_vars
    /\ [][ (Session2Attach /\ mqtt_client = "client") => userdata' = "mqtt_queue2" ]_vars
    /\ [][ \A msg \in Messages :
              (JsonLoads(msg[2]).ok /\ OnMessage(msg[1], msg[2]))
              => \/ userdata = "mqtt_queue" /\ PushedOnFirst(msg)
                 \/ userdata = "mqtt_queue2" /\ PushedOnSecond(msg) ]_vars

====
